---- MODULE Spec2Model ----
(***************************************************************************)
(* OpenSea price monitor: the retry/validation fetch of opensea.py, the    *)
(* notifier of telegram.py and the monitor loop of main.py.                *)
(*                                                                         *)
(* A Python string that went through ' '.join(text.split()) or that was    *)
(* built as f"{price} {currency}" is modelled as the sequence of its       *)
(* whitespace-separated tokens: "0.44 ETH" is <<"0.44", "ETH">> and the    *)
(* empty string is <<>>.  A float is modelled as an integer number of      *)
(* hundredths: 0.44 is 44, -1.0 is -100.                                   *)
(***************************************************************************)
EXTENDS Integers, Sequences, FiniteSets, TLC

VARIABLES
    pc,              \* position of the process in main.py
    file,            \* memory.json on disk
    last_prices,     \* PriceMonitor.last_prices
    bot_token,       \* TELEGRAM_BOT_TOKEN is set and non-empty
    channel_id,      \* TELEGRAM_CHANNEL_ID is set and non-empty
    attempt,         \* loop index of get_collection_prices
    result,          \* return value of get_collection_prices
    current_prices,  \* return value of check_prices
    anyValid,        \* history: an attempt of this fetch yielded a non-degenerate pair
    notified,        \* history: snapshot handed to send_price_update in this cycle
    sendOutcome,     \* history: how send_price_update ended in this cycle
    written,         \* history: snapshot handed to _save_memory in this cycle
    saveOutcome,     \* history: how _save_memory ended in this cycle
    pre,             \* history: last_prices and file when the cycle began
    loopError,       \* history: the handler of main.py:118 ran in this cycle
    fetches,         \* history: a fetch has succeeded in an earlier cycle
    sessions,        \* browser sessions that are open
    bot_sessions,    \* bot sessions that are open
    lastAttempt,     \* history: how the latest attempt of this fetch ended
    sends,           \* history: the calls of send_price_update in this cycle
    store,           \* history: "default", "synced" (loaded or saved) or "failed"
    delivered,       \* history: the snapshot of the latest delivered notification
    call             \* the latest application of a pure function

\* the variables of the monitor
monitorVars == <<pc, file, last_prices, bot_token, channel_id, attempt, result,
                 current_prices, anyValid, notified, sendOutcome, written,
                 saveOutcome, pre, loopError, fetches, sessions, bot_sessions,
                 lastAttempt, sends, store, delivered>>

vars == <<monitorVars, call>>

----------------------------------------------------------------------------
(* Values *)

None == [none |-> TRUE]

Raised == [raised |-> TRUE]

max_retries == 5

\* magnitude tokens the page can show
MagTokens == {"0.44", "0,44", "0.5", "0", "-1", "abc"}

\* currency tokens the page can show
CurrencyTokens == {"ETH", "UNKNOWN"}

\* normalised element texts: well-formed ones, the "N/A" sentinel, the empty
\* text, a one-token and a three-token text
ElementTexts ==
    {<<m, c>> : m \in MagTokens, c \in CurrencyTokens}
        \cup {<<"N/A">>, <<>>, <<"0.44">>, <<"0.44", "ETH", "+">>}

\* what one browser attempt can meet
PageOutcomes ==
    {[kind |-> "launch_error"], [kind |-> "scrape_error"]}
        \cup {[kind |-> "texts", floor_price |-> f, best_offer |-> b] :
                f \in ElementTexts, b \in ElementTexts}

----------------------------------------------------------------------------
(* Python float(), str(float) and str.replace(',', '.') on the tokens *)

FloatTable ==
    ("0.44" :> 44) @@ ("0.5" :> 50) @@ ("0" :> 0) @@ ("0.0" :> 0)
        @@ ("-1" :> -100) @@ ("-1.0" :> -100) @@ ("0.440" :> 44)

\* float(tok) raises ValueError
FloatRaises(tok) == tok \notin DOMAIN FloatTable

float(tok) == FloatTable[tok]

\* str(x) of a float x, as used by an f-string
FloatStr(x) ==
    CASE x = 44 -> "0.44"
      [] x = 50 -> "0.5"
      [] x = 0 -> "0.0"
      [] x = -100 -> "-1.0"

ReplaceComma(tok) == IF tok = "0,44" THEN "0.44" ELSE tok

----------------------------------------------------------------------------
(* opensea.py *)

_parse_price_string_nocatch(price_string) ==
    IF price_string = <<"N/A">> THEN <<0, "UNKNOWN">>
    ELSE IF Len(price_string) # 2 THEN <<0, "UNKNOWN">>
    ELSE LET price_str == ReplaceComma(price_string[1])
         IN  IF FloatRaises(price_str) THEN Raised
             ELSE <<float(price_str), price_string[2]>>

_parse_price_string(price_string) ==
    IF price_string = <<"N/A">> THEN <<0, "UNKNOWN">>
    ELSE IF Len(price_string) # 2 THEN <<0, "UNKNOWN">>
    ELSE LET price_str == ReplaceComma(price_string[1])
         IN  IF FloatRaises(price_str) THEN <<0, "UNKNOWN">>
             ELSE <<float(price_str), price_string[2]>>

\* the raw texts, or Raised
_scrape_price_data_with_timeout(o) ==
    IF o.kind = "scrape_error" THEN Raised
    ELSE IF o.floor_price = <<"N/A">> \/ o.best_offer = <<"N/A">> THEN Raised
    ELSE [floor_price |-> o.floor_price, best_offer |-> o.best_offer]

\* the parsed pair, None, or Raised
_try_get_prices(o) ==
    IF o.kind = "launch_error" THEN Raised
    ELSE LET raw_data == _scrape_price_data_with_timeout(o)
         IN  IF raw_data = Raised THEN Raised
             ELSE IF raw_data = None THEN None
             ELSE [floor_price |-> _parse_price_string(raw_data.floor_price),
                   best_offer |-> _parse_price_string(raw_data.best_offer)]

ValidateNoZero(r) ==
    IF "UNKNOWN" \in {r.floor_price[2], r.best_offer[2]} THEN "unknown"
    ELSE "ok"

ValidateNoUnknown(r) ==
    IF r.floor_price[1] = 0 \/ r.best_offer[1] = 0 THEN "zero"
    ELSE "ok"

\* the validation of one attempt's result inside get_collection_prices
Validate(r) ==
    IF "UNKNOWN" \in {r.floor_price[2], r.best_offer[2]} THEN "unknown"
    ELSE IF r.floor_price[1] = 0 \/ r.best_offer[1] = 0 THEN "zero"
    ELSE "ok"

----------------------------------------------------------------------------
(* main.py: state store and comparison *)

DefaultWrong ==
    [floor_price |-> <<"0.44", "ETH">>, best_offer |-> <<"0.44", "ETH">>]

\* the fallback of _load_memory
Default == [floor_price |-> <<"0", "ETH">>, best_offer |-> <<"0", "ETH">>]

FileMissing == [file |-> "missing"]
FileUnreadable == [file |-> "unreadable"]
FileNotJson == [file |-> "notjson"]
FileJson(v) == [file |-> "json", content |-> v]

\* JSON documents that are not a mapping with the two keys
JsonList == [json |-> "list"]
JsonObjectNoKeys == [json |-> "object"]

IsSnapshot(v) == DOMAIN v = {"floor_price", "best_offer"}

\* open() raises something other than FileNotFoundError
LoadRaises(f) == f.file = "unreadable"

_load_memory_default(f) == Default

_load_memory(f) ==
    IF f.file \in {"missing", "notjson"} THEN Default ELSE f.content

_format_price(price_tuple) == <<FloatStr(price_tuple[1]), price_tuple[2]>>

\* last is a mapping with both keys
_prices_changed_always(new_prices, last) == TRUE

_prices_changed(new_prices, last) ==
    \/ new_prices.floor_price # last.floor_price
    \/ new_prices.best_offer # last.best_offer

check_prices_default(r) ==
    IF r = None THEN Default
    ELSE [floor_price |-> _format_price(r.floor_price),
          best_offer |-> _format_price(r.best_offer)]

check_prices(r) ==
    IF r = None THEN None
    ELSE [floor_price |-> _format_price(r.floor_price),
          best_offer |-> _format_price(r.best_offer)]

----------------------------------------------------------------------------
(* telegram.py *)

\* TelegramService.__init__ raises ValueError
CredentialsMissing == ~bot_token \/ ~channel_id

format_change_ge(new_price, old_price) ==
    IF old_price = <<>> \/ new_price = old_price
    THEN [text |-> new_price, indicator |-> ""]
    ELSE IF Len(new_price) = 0 \/ Len(old_price) = 0 THEN Raised
    ELSE IF FloatRaises(new_price[1]) \/ FloatRaises(old_price[1]) THEN Raised
    ELSE IF float(new_price[1]) >= float(old_price[1])
         THEN [text |-> new_price, indicator |-> "+"]
         ELSE [text |-> new_price, indicator |-> "-"]

\* the rendering of one price field, or Raised
format_change(new_price, old_price) ==
    IF old_price = <<>> \/ new_price = old_price
    THEN [text |-> new_price, indicator |-> ""]
    ELSE IF Len(new_price) = 0 \/ Len(old_price) = 0 THEN Raised
    ELSE IF FloatRaises(new_price[1]) \/ FloatRaises(old_price[1]) THEN Raised
    ELSE IF float(new_price[1]) > float(old_price[1])
         THEN [text |-> new_price, indicator |-> "+"]
         ELSE [text |-> new_price, indicator |-> "-"]

\* composing the message raises: format_change raises for one of the fields
FormatRaises(new_prices, old_prices) ==
    \/ format_change(new_prices.floor_price, old_prices.floor_price) = Raised
    \/ format_change(new_prices.best_offer, old_prices.best_offer) = Raised

\* the rendering of one field by send_price_update: old_prices is given
\* (has_old) or None
RenderField(new_price, has_old, old_price) ==
    IF has_old THEN format_change(new_price, old_price)
    ELSE [text |-> new_price, indicator |-> ""]

\* how building the service can end: TelegramService() and the event loop
\* are there, or the Bot constructor or the event loop raises
ServiceOutcomes == {"constructed", "raised"}

\* how send_message can end once the message is composed: it returns True,
\* or the transport raises and it returns False
TransportOutcomes == {"delivered", "failed"}

SessionsAfterSendNoOuterFinally(s, composed) == IF composed THEN s - 1 ELSE s

\* the open bot sessions when _send_price_update_async is left: the finally
\* of send_message and the finally of the helper close the session of the
\* service, whether the message was composed or format_change raised
SessionsAfterSend(s, composed) == s - 1

----------------------------------------------------------------------------
(* main.py: the monitor loop *)

AfterSendAlwaysSave(outcome) == "save"

\* where run goes after send_price_update ended with outcome
AfterSend(outcome) == IF outcome = "delivered" THEN "save" ELSE "sleep"

LoopGuardMissing == "crashed"

\* where run goes after an exception in the body of one iteration
LoopGuard == "sleep"

\* how _save_memory can end: written, open() raised, or the write raised after
\* open() truncated the file
SaveOutcomes == {"ok", "open_error", "write_error"}

SavedContentStale(prices, old) == old

\* the document _save_memory leaves on disk when it succeeds
SavedContent(prices, old) == prices

LastAfterSaveKept(prices, old) == old

\* last_prices after _save_memory returned: the assignment of line 112
LastAfterSave(prices, old) == prices

LastAfterSaveErrorAssigned(prices, old) == prices

\* last_prices after _save_memory raised: the assignment of line 112 is skipped
LastAfterSaveError(prices, old) == old

\* memory.json before the process starts
InitFiles ==
    {FileMissing, FileUnreadable, FileNotJson,
     FileJson(JsonList), FileJson(JsonObjectNoKeys),
     FileJson(Default),
     FileJson([floor_price |-> <<"0.44", "ETH">>, best_offer |-> <<"0.5", "WETH">>]),
     FileJson([floor_price |-> <<"abc", "ETH">>, best_offer |-> <<"0.5", "WETH">>])}

\* no pure function applied
Idle == [fn |-> "idle"]

Init ==
    /\ pc = "main"
    /\ file \in InitFiles
    /\ last_prices = None
    /\ bot_token \in BOOLEAN
    /\ channel_id \in BOOLEAN
    /\ attempt = 0
    /\ result = None
    /\ current_prices = None
    /\ anyValid = FALSE
    /\ notified = None
    /\ sendOutcome = "none"
    /\ written = None
    /\ saveOutcome = "none"
    /\ pre = [last_prices |-> None, file |-> file]
    /\ loopError = FALSE
    /\ fetches = FALSE
    /\ sessions = 0
    /\ bot_sessions = 0
    /\ lastAttempt = "none"
    /\ sends = <<>>
    /\ store = "default"
    /\ delivered = None
    /\ call = Idle

\* main: PriceMonitor() loads the memory, then run() starts
Main ==
    /\ pc = "main"
    /\ IF LoadRaises(file)
       THEN pc' = "crashed" /\ UNCHANGED <<last_prices, store>>
       ELSE /\ pc' = "run"
            /\ last_prices' = _load_memory(file)
            /\ store' = IF file.file = "json" THEN "synced" ELSE "default"
    /\ UNCHANGED <<file, bot_token, channel_id, attempt, result, current_prices,
                   anyValid, notified, sendOutcome, written, saveOutcome, pre,
                   loopError, fetches, sessions, bot_sessions, lastAttempt,
                   sends, call,
                   delivered>>

\* the locals and the history of one iteration, as a new iteration finds them
NewIteration ==
    /\ attempt' = 0
    /\ result' = None
    /\ current_prices' = None
    /\ anyValid' = FALSE
    /\ notified' = None
    /\ sendOutcome' = "none"
    /\ written' = None
    /\ saveOutcome' = "none"
    /\ pre' = [last_prices |-> last_prices, file |-> file]
    /\ loopError' = FALSE
    /\ fetches' = (fetches \/ result # None)
    /\ lastAttempt' = "none"
    /\ sends' = <<>>

\* top of the while loop: check_prices calls get_collection_prices
BeginCycle ==
    /\ pc = "run"
    /\ pc' = "attempt"
    /\ NewIteration
    /\ UNCHANGED <<file, last_prices, bot_token, channel_id, sessions,
                   bot_sessions, store, call,
                   delivered>>

\* a Price of the data model is degenerate
Degenerate(price) == price[2] = "UNKNOWN" \/ price[1] = 0

\* the page showed a pair of non-degenerate prices in this attempt
ValidOutcome(o) ==
    /\ _try_get_prices(o) \notin {Raised, None}
    /\ ~Degenerate(_try_get_prices(o).floor_price)
    /\ ~Degenerate(_try_get_prices(o).best_offer)

AfterRaiseAbort(index) == "fetched"

\* where get_collection_prices goes after the attempt with this index raised
AfterRaise(index) ==
    IF index < max_retries - 1 THEN "retry_delay" ELSE "fetched"

AfterInvalidNoDelay(v) == IF v = "zero" THEN "attempt" ELSE "retry_delay"

\* where get_collection_prices goes after Validate rejected the pair with v
AfterInvalid(v) == "retry_delay"

browser_close_leak(s) == s

\* browser.close() in the finally of _try_get_prices
browser_close(s) == s - 1

\* the rest of one iteration of the for loop of get_collection_prices, once
\* _try_get_prices met o
AttemptEnds(o) ==
    LET r == _try_get_prices(o) IN
    /\ anyValid' = (anyValid \/ ValidOutcome(o))
    /\ IF r = Raised
       THEN /\ attempt' = attempt + 1
            /\ pc' = AfterRaise(attempt)
            /\ lastAttempt' = "raised"
            /\ UNCHANGED result
       ELSE IF r = None
       THEN /\ attempt' = attempt + 1
            /\ pc' = IF attempt + 1 < max_retries THEN "attempt" ELSE "fetched"
            /\ lastAttempt' = "empty"
            /\ UNCHANGED result
       ELSE IF Validate(r) # "ok"
       THEN /\ attempt' = attempt + 1
            /\ pc' = AfterInvalid(Validate(r))
            /\ lastAttempt' = Validate(r)
            /\ UNCHANGED result
       ELSE /\ pc' = "fetched"
            /\ result' = r
            /\ lastAttempt' = "ok"
            /\ UNCHANGED attempt

\* _try_get_prices: p.chromium.launch(); when it raises, the finally raises
\* too (browser is unbound) and no session was opened
Launch ==
    /\ pc = "attempt"
    /\ \E launched \in BOOLEAN :
        IF launched
        THEN /\ sessions' = sessions + 1
             /\ pc' = "scrape"
             /\ UNCHANGED <<attempt, result, anyValid, lastAttempt>>
        ELSE /\ AttemptEnds([kind |-> "launch_error"])
             /\ UNCHANGED sessions
    /\ UNCHANGED <<file, last_prices, bot_token, channel_id, current_prices,
                   notified, sendOutcome, written, saveOutcome, pre, loopError,
                   fetches, bot_sessions, sends, store, call,
                   delivered>>

\* _try_get_prices: scrape, parse, browser.close(); then the validation of
\* get_collection_prices
Scrape ==
    /\ pc = "scrape"
    /\ sessions' = browser_close(sessions)
    /\ \E o \in PageOutcomes \ {[kind |-> "launch_error"]} : AttemptEnds(o)
    /\ UNCHANGED <<file, last_prices, bot_token, channel_id, current_prices,
                   notified, sendOutcome, written, saveOutcome, pre, loopError,
                   fetches, bot_sessions, sends, store, call,
                   delivered>>

\* time.sleep(retry_delay), then the next iteration or the end of the loop
RetryDelay ==
    /\ pc = "retry_delay"
    /\ IF attempt < max_retries
       THEN pc' = "attempt" /\ UNCHANGED result
       ELSE pc' = "fetched" /\ result' = None
    /\ UNCHANGED <<file, last_prices, bot_token, channel_id, attempt,
                   current_prices, anyValid, notified, sendOutcome, written,
                   saveOutcome, pre, loopError, fetches, sessions, bot_sessions,
                   lastAttempt, sends, store, call,
                   delivered>>

\* check_prices returns; run compares with last_prices
Compare ==
    /\ pc = "fetched"
    /\ current_prices' = check_prices(result)
    /\ IF check_prices(result) = None
       THEN pc' = "sleep" /\ UNCHANGED loopError
       ELSE IF ~IsSnapshot(last_prices)
       THEN pc' = LoopGuard /\ loopError' = TRUE
       ELSE IF _prices_changed(check_prices(result), last_prices)
       THEN pc' = "notify" /\ UNCHANGED loopError
       ELSE pc' = "sleep" /\ UNCHANGED loopError
    /\ UNCHANGED <<file, last_prices, bot_token, channel_id, attempt, result,
                   anyValid, notified, sendOutcome, written, saveOutcome, pre,
                   fetches, sessions, bot_sessions, lastAttempt, sends, store,
                   call,
                   delivered>>

\* send_price_update(collection, floor_price, best_offer, old_prices) is
\* called: _send_price_update_async builds a TelegramService with its bot
Notify ==
    /\ pc = "notify"
    /\ notified' = current_prices
    /\ \E built \in ServiceOutcomes :
        LET constructed == ~CredentialsMissing /\ built = "constructed" IN
        /\ sends' = Append(sends, [new_prices |-> current_prices,
                                   old_prices |-> last_prices,
                                   bot |-> constructed])
        /\ IF constructed
           THEN /\ bot_sessions' = bot_sessions + 1
                /\ pc' = "sending"
                /\ UNCHANGED <<sendOutcome, loopError>>
           ELSE /\ sendOutcome' = "raised"
                /\ pc' = LoopGuard
                /\ loopError' = TRUE
                /\ UNCHANGED bot_sessions
    /\ UNCHANGED <<file, last_prices, bot_token, channel_id, attempt, result,
                   current_prices, anyValid, written, saveOutcome, pre, fetches,
                   sessions, lastAttempt, store, call,
                   delivered>>

\* TelegramService.send_price_update composes the message and send_message
\* sends it; the session is closed on the way out
Send ==
    /\ pc = "sending"
    /\ IF FormatRaises(current_prices, last_prices)
       THEN /\ sendOutcome' = "raised"
            /\ bot_sessions' = SessionsAfterSend(bot_sessions, FALSE)
            /\ pc' = LoopGuard
            /\ loopError' = TRUE
            /\ UNCHANGED delivered
       ELSE /\ \E t \in TransportOutcomes :
                 /\ sendOutcome' = t
                 /\ pc' = AfterSend(t)
                 /\ delivered' = IF t = "delivered" THEN current_prices
                                                   ELSE delivered
            /\ bot_sessions' = SessionsAfterSend(bot_sessions, TRUE)
            /\ UNCHANGED loopError
    /\ UNCHANGED <<file, last_prices, bot_token, channel_id, attempt, result,
                   current_prices, anyValid, notified, written, saveOutcome,
                   pre, fetches, sessions, lastAttempt, sends, store, call>>

\* _save_memory(current_prices); last_prices = current_prices
Save ==
    /\ pc = "save"
    /\ written' = current_prices
    /\ \E io \in SaveOutcomes :
        /\ saveOutcome' = io
        /\ IF io = "ok"
           THEN /\ file' = FileJson(SavedContent(current_prices, last_prices))
                /\ last_prices' = LastAfterSave(current_prices, last_prices)
                /\ pc' = "sleep"
                /\ store' = IF store = "failed" THEN "failed" ELSE "synced"
                /\ UNCHANGED loopError
           ELSE /\ file' = IF io = "write_error" THEN FileNotJson ELSE file
                /\ last_prices' = LastAfterSaveError(current_prices, last_prices)
                /\ pc' = LoopGuard
                /\ store' = "failed"
                /\ loopError' = TRUE
    /\ UNCHANGED <<bot_token, channel_id, attempt, result, current_prices,
                   anyValid, notified, sendOutcome, pre, fetches, sessions,
                   bot_sessions, lastAttempt, sends, call,
                   delivered>>

\* time.sleep(check_interval), then the next iteration; the locals of the
\* iteration are dead from here on
Sleep ==
    /\ pc = "sleep"
    /\ pc' = "run"
    /\ NewIteration
    /\ UNCHANGED <<file, last_prices, bot_token, channel_id, sessions,
                   bot_sessions, store, call,
                   delivered>>

Next ==
    \/ Main
    \/ BeginCycle
    \/ Launch
    \/ Scrape
    \/ RetryDelay
    \/ Compare
    \/ Notify
    \/ Send
    \/ Save
    \/ Sleep

Spec == Init /\ [][Next]_vars

\* the process is sequential and every blocking call is bounded, so a step
\* that is enabled is eventually taken
FairSpec == Spec /\ WF_vars(Next)

TypeOK ==
    /\ pc \in {"main", "crashed", "run", "attempt", "scrape", "retry_delay",
               "fetched", "notify", "sending", "save", "sleep"}
    /\ attempt \in 0..max_retries
    /\ sendOutcome \in {"none", "raised"} \cup TransportOutcomes
    /\ saveOutcome \in {"none"} \cup SaveOutcomes
    /\ sessions \in {0, 1}
    /\ bot_sessions \in {0, 1}
    /\ Len(sends) <= 1

----------------------------------------------------------------------------
(* The pure functions applied to inputs of their own *)

\* display strings a price field or a stored snapshot can hold
DisplayStrings ==
    {<<m, c>> : m \in {"0.44", "0.440", "0.5", "0.0", "-1.0", "0", "abc"},
                c \in {"ETH", "WETH"}}

\* texts _parse_price_string can be given
PriceStrings ==
    ElementTexts \cup {<<"0.440", "ETH">>, <<"ETH", "0.44">>, <<"abc">>}

PureInit ==
    /\ Init
    /\ file = FileMissing
    /\ bot_token
    /\ channel_id

\* format_change as send_price_update applies it to one field
ApplyRenderField ==
    /\ \E new_price \in DisplayStrings, has_old \in BOOLEAN,
          old_price \in DisplayStrings \cup {<<>>} :
        call' = [fn |-> "format_change", new_price |-> new_price,
                 has_old |-> has_old, old_price |-> old_price,
                 out |-> RenderField(new_price, has_old, old_price)]
    /\ UNCHANGED monitorVars

\* _parse_price_string applied to a text
ApplyParse ==
    /\ \E price_string \in PriceStrings :
        call' = [fn |-> "_parse_price_string", price_string |-> price_string,
                 out |-> _parse_price_string(price_string)]
    /\ UNCHANGED monitorVars

PureNext ==
    \/ ApplyRenderField
    \/ ApplyParse

PureSpec == PureInit /\ [][PureNext]_vars

----------------------------------------------------------------------------
(* Properties *)

\* a display string "<magnitude> <currency>" shows a degenerate price
DisplayDegenerate(s) ==
    \/ Len(s) # 2
    \/ s[2] = "UNKNOWN"
    \/ FloatRaises(s[1])
    \/ float(s[1]) = 0

\* C1: whatever the monitor writes to the state file is the snapshot of a
\* fetch whose two prices were validated as non-degenerate, and that snapshot
\* was delivered by the notifier earlier in the same cycle.
C1_PersistedOnlyValidatedAndDelivered ==
    /\ [](written # None =>
            /\ result # None
            /\ ~Degenerate(result.floor_price)
            /\ ~Degenerate(result.best_offer)
            /\ written.floor_price = <<FloatStr(result.floor_price[1]), result.floor_price[2]>>
            /\ written.best_offer = <<FloatStr(result.best_offer[1]), result.best_offer[2]>>
            /\ sendOutcome = "delivered"
            /\ notified = written)
    /\ [](file # pre.file =>
            /\ written # None
            /\ \/ file = FileJson(written)
               \/ saveOutcome = "write_error" /\ file = FileNotJson)
    /\ [][written' # written /\ written' # None =>
            sendOutcome = "delivered" /\ notified = written']_vars

C1_Witness ==
    /\ pc = "sleep"
    /\ saveOutcome = "ok"
    /\ written # None
    /\ file = FileJson(written)
    /\ file # pre.file

\* C2: when a change is detected and send_price_update returns False or
\* raises, the state file and last_prices are as they were when the cycle began.
C2_FailedNotifyLeavesState ==
    (notified # None /\ sendOutcome \in {"failed", "raised"}) =>
        /\ last_prices = pre.last_prices
        /\ file = pre.file
        /\ written = None
        /\ pc \in {"sleep", "run"}

C2_Witness ==
    /\ pc = "sleep"
    /\ notified # None
    /\ sendOutcome = "failed"
    /\ IsSnapshot(last_prices)

\* C3: when both fields of the fetched snapshot are textually equal to
\* last_prices, no notification is sent, nothing is saved and last_prices
\* stays as it was.
C3_EqualSnapshotIsNoOp ==
    (/\ current_prices # None
     /\ IsSnapshot(pre.last_prices)
     /\ current_prices.floor_price = pre.last_prices.floor_price
     /\ current_prices.best_offer = pre.last_prices.best_offer) =>
        /\ notified = None
        /\ sendOutcome = "none"
        /\ written = None
        /\ saveOutcome = "none"
        /\ last_prices = pre.last_prices
        /\ file = pre.file
        /\ pc \in {"sleep", "run"}

C3_Witness ==
    /\ pc = "sleep"
    /\ current_prices # None
    /\ IsSnapshot(pre.last_prices)
    /\ current_prices = pre.last_prices
    /\ notified = None

\* C4 as stated: at the end of a cycle in which the fetched snapshot differed
\* and the notification was delivered, the state file and last_prices equal
\* the new snapshot.
C4_DeliveredThenPersisted ==
    (pc = "sleep" /\ sendOutcome = "delivered") =>
        /\ file = FileJson(current_prices)
        /\ last_prices = current_prices

\* C4 amended: at the end of a cycle in which the fetched snapshot differed,
\* the notification was delivered and _save_memory did not raise, the state
\* file and last_prices equal the new snapshot; when _save_memory raised,
\* last_prices is still the old snapshot.
C4_DeliveredAndSavedThenPersisted ==
    (pc = "sleep" /\ sendOutcome = "delivered") =>
        /\ current_prices # None
        /\ current_prices # pre.last_prices
        /\ saveOutcome = "ok" =>
             file = FileJson(current_prices) /\ last_prices = current_prices
        /\ saveOutcome # "ok" => last_prices = pre.last_prices

C4_Witness ==
    /\ pc = "sleep"
    /\ sendOutcome = "delivered"
    /\ saveOutcome = "ok"
    /\ file = FileJson(current_prices)
    /\ last_prices = current_prices
    /\ last_prices # pre.last_prices

\* C5: with the bot token or the channel id missing the process aborts at
\* startup, before the loop performs a fetch.
C5_MissingCredentialsAbort ==
    CredentialsMissing => pc \in {"main", "crashed"}

\* C6: get_collection_prices returns None whenever no attempt of the fetch
\* yielded a pair of non-degenerate prices.
C6_AllAttemptsBadGivesNone ==
    ~anyValid => result = None

C6_Witness ==
    /\ pc = "fetched"
    /\ ~anyValid
    /\ attempt = max_retries
    /\ result = None

\* C7: no notification carries a degenerate floor price or best offer, and a
\* cycle whose fetch yields no result sends no notification and goes to sleep.
C7_NoDegenerateNotification ==
    /\ notified # None =>
         /\ ~DisplayDegenerate(notified.floor_price)
         /\ ~DisplayDegenerate(notified.best_offer)
    /\ pc \in {"notify", "save"} => result # None
    /\ (pc = "sleep" /\ result = None) => (notified = None /\ sendOutcome = "none")

C7_Witness ==
    /\ notified # None
    /\ sendOutcome = "delivered"
    /\ attempt > 0

\* C8: loading never fails and yields a snapshot; it yields the default when
\* the file is missing, unreadable, not JSON or not a mapping with both keys.
C8_LoadNeverFails ==
    /\ pc # "crashed"
    /\ pc # "main" => IsSnapshot(last_prices)
    /\ (pc = "run" /\ pre.last_prices = None
            /\ (file.file # "json" \/ ~IsSnapshot(file.content))) =>
         last_prices = [floor_price |-> <<"0", "ETH">>, best_offer |-> <<"0", "ETH">>]

LoopBody == {"run", "attempt", "retry_delay", "fetched", "notify", "save"}

\* C9: once in the loop the process always reaches the inter-cycle sleep,
\* also after an exception in the iteration, and after the sleep it always
\* starts another fetch.
C9_LoopNeverEnds ==
    /\ (pc \in LoopBody) ~> (pc = "sleep")
    /\ (pc = "sleep") ~> (pc = "attempt" /\ attempt = 0)
    /\ [](loopError => pc \in {"sleep", "run"})

C9_Witness ==
    /\ pc = "sleep"
    /\ loopError
    /\ fetches

\* the first cycle whose fetch succeeds, in a run started without a state file
FirstFetchNoFile ==
    /\ pre.file = FileMissing
    /\ ~fetches
    /\ result # None
    /\ pc = "sleep"

\* C10 as stated: started without a state file, last_prices is the default, the
\* first successful fetch differs from it and a notification is attempted; if
\* it is delivered the file holds exactly the fetched pair.
C10_FirstFetchNotifiesAndPersists ==
    /\ (pc = "run" /\ pre.last_prices = None /\ file = FileMissing) =>
         last_prices = [floor_price |-> <<"0", "ETH">>, best_offer |-> <<"0", "ETH">>]
    /\ FirstFetchNoFile =>
         /\ notified = current_prices
         /\ notified # None
         /\ sendOutcome # "none"
         /\ sendOutcome = "delivered" => file = FileJson(current_prices)

\* C10 amended: the same, the file holding the fetched pair when the
\* notification is delivered and _save_memory does not raise.
C10_FirstFetchNotifiesAndPersistsIfSaved ==
    /\ (pc = "run" /\ pre.last_prices = None /\ file = FileMissing) =>
         last_prices = [floor_price |-> <<"0", "ETH">>, best_offer |-> <<"0", "ETH">>]
    /\ FirstFetchNoFile =>
         /\ pre.last_prices = [floor_price |-> <<"0", "ETH">>, best_offer |-> <<"0", "ETH">>]
         /\ notified = current_prices
         /\ notified # None
         /\ sendOutcome # "none"
         /\ (sendOutcome = "delivered" /\ saveOutcome = "ok") =>
              file = FileJson(current_prices)
         /\ (sendOutcome = "delivered") = (written # None)

C10_Witness ==
    /\ FirstFetchNoFile
    /\ sendOutcome = "delivered"
    /\ saveOutcome = "ok"
    /\ file = FileJson(current_prices)

\* the leading numeric magnitude of a display string, in hundredths
Magnitude(s) ==
    CASE s[1] \in {"0.44", "0.440"} -> 44
      [] s[1] = "0.5" -> 50
      [] s[1] \in {"0", "0.0"} -> 0
      [] s[1] \in {"-1", "-1.0"} -> -100

HasMagnitude(s) ==
    Len(s) > 0 /\ s[1] \in {"0.44", "0.440", "0.5", "0", "0.0", "-1", "-1.0"}

\* the field has no previous value, or the same display string as before
NoChangeShown(c) ==
    ~c.has_old \/ c.old_price = <<>> \/ c.new_price = c.old_price

\* C11: a price field is rendered bold without indicator when there is no
\* previous value or the display string is the same; otherwise with "+" when
\* the new magnitude is strictly greater and with "-" in every other case,
\* equal magnitudes with different strings included.  Nothing is rendered
\* (format_change raises) exactly when a compared magnitude is not numeric.
C11_ChangeIndicator ==
    call.fn = "format_change" =>
        /\ (call.out = Raised) =
             (~NoChangeShown(call)
                /\ ~(HasMagnitude(call.new_price) /\ HasMagnitude(call.old_price)))
        /\ call.out # Raised =>
             /\ call.out.text = call.new_price
             /\ call.out.indicator =
                  IF NoChangeShown(call) THEN ""
                  ELSE IF Magnitude(call.new_price) > Magnitude(call.old_price)
                       THEN "+" ELSE "-"

C11_Witness ==
    /\ call.fn = "format_change"
    /\ call.has_old
    /\ call.new_price = <<"0.44", "ETH">>
    /\ call.old_price = <<"0.440", "ETH">>
    /\ call.out = [text |-> <<"0.44", "ETH">>, indicator |-> "-"]

\* magnitude tokens that are numerals once a comma is read as a period
NumericTokens == {"0.44", "0,44", "0.440", "0.5", "0", "-1"}

\* a text that is not "<numeral> <currency>"
Malformed(t) ==
    \/ t = <<"N/A">>
    \/ Len(t) # 2
    \/ t[1] \notin NumericTokens

\* C12: _parse_price_string never raises, and for a malformed text (token
\* count other than two, non-numeric magnitude, or "N/A") it returns
\* (0.0, "UNKNOWN").
C12_MalformedParsesToUnknown ==
    call.fn = "_parse_price_string" =>
        /\ call.out # Raised
        /\ Malformed(call.price_string) => call.out = <<0, "UNKNOWN">>
        /\ ~Malformed(call.price_string) => call.out[2] = call.price_string[2]

C12_Witness ==
    /\ call.fn = "_parse_price_string"
    /\ call.price_string = <<"abc", "ETH">>
    /\ call.out = <<0, "UNKNOWN">>

\* both prices of a parsed pair are non-degenerate
ValidPair(r) == ~Degenerate(r.floor_price) /\ ~Degenerate(r.best_offer)

\* C13: a fetch ends, after at most max_retries attempts; an attempt that
\* raises counts as one attempt and does not end the fetch before the budget is
\* used up; the fetch returns early only with the valid pair of its latest
\* attempt.
C13_BoundedAttempts ==
    /\ [](pc \in {"attempt", "scrape"} => attempt < max_retries)
    /\ [](attempt <= max_retries)
    /\ []((pc = "fetched" /\ result = None) => attempt = max_retries)
    /\ []((pc = "fetched" /\ result # None) =>
            /\ lastAttempt = "ok"
            /\ ValidPair(result)
            /\ attempt < max_retries)
    /\ [][(pc \in {"attempt", "scrape"} /\ lastAttempt' = "raised"
             /\ pc' # "scrape") =>
            /\ attempt' = attempt + 1
            /\ pc' = IF attempt' < max_retries THEN "retry_delay" ELSE "fetched"]_vars
    /\ (pc = "attempt") ~> (pc = "fetched")

C13_Witness ==
    /\ pc = "fetched"
    /\ result = None
    /\ lastAttempt = "raised"
    /\ attempt = max_retries

\* C14: an attempt other than the first of a fetch starts only out of the
\* retry delay that followed the failed attempt before it.
C14_DelayBetweenAttempts ==
    [][(pc' = "attempt" /\ attempt' > 0) =>
         /\ pc = "retry_delay"
         /\ attempt' = attempt
         /\ lastAttempt \in {"raised", "unknown", "zero"}]_vars

C14_Witness ==
    /\ pc = "attempt"
    /\ attempt > 1
    /\ lastAttempt = "zero"

\* C15: at most one browser session is open, and none is open outside an
\* attempt: not in the retry delay, not when the next attempt starts and not
\* after get_collection_prices returned.
C15_OneBrowserSession ==
    /\ sessions <= 1
    /\ pc = "scrape" => sessions = 1
    /\ pc # "scrape" => sessions = 0

C15_Witness ==
    /\ pc = "attempt"
    /\ attempt > 0
    /\ lastAttempt = "raised"
    /\ sessions = 0

\* C16: every cycle whose fetch succeeds with a snapshot that differs from
\* last_prices calls send_price_update exactly once, with last_prices as
\* old_prices.
C16_ChangedSnapshotNotifiedOnce ==
    (pc = "sleep" /\ current_prices # None /\ current_prices # pre.last_prices) =>
        /\ Len(sends) = 1
        /\ sends[1].new_prices = current_prices
        /\ sends[1].old_prices = pre.last_prices

SaveFailed == saveOutcome \in {"open_error", "write_error"}

\* C17 as stated: a failure of _save_memory is caught by the guard of the loop,
\* and after it last_prices is inconsistent with the file.
C17_SaveFailureLeavesInconsistent ==
    SaveFailed =>
        /\ pc = "sleep"
        /\ loopError
        /\ file # FileJson(last_prices)

\* C17 amended: a failure of _save_memory is caught by the guard of the loop;
\* after it last_prices is still the old snapshot, and the file is unchanged
\* when open() raised or truncated when the write raised; a save that
\* succeeds makes the file equal to last_prices.
C17_SaveFailureKeepsLastKnown ==
    /\ SaveFailed =>
         /\ pc = "sleep"
         /\ loopError
         /\ sendOutcome = "delivered"
         /\ last_prices = pre.last_prices
         /\ saveOutcome = "open_error" => file = pre.file
         /\ saveOutcome = "write_error" =>
              file = FileNotJson /\ file # FileJson(last_prices)
    /\ saveOutcome = "ok" => file = FileJson(last_prices)

C17_Witness ==
    /\ pc = "sleep"
    /\ saveOutcome = "open_error"
    /\ loopError
    /\ file = FileJson(last_prices)

\* C18: a send builds its own bot, and when send_price_update returns or
\* raises the session of that bot is closed: after a delivery, after a
\* transport error and after an error in format_change.
C18_BotSessionReleased ==
    /\ [](pc = "sending" => bot_sessions = 1)
    /\ [](pc # "sending" => bot_sessions = 0)
    /\ [][pc' = "sending" => (bot_sessions = 0 /\ sends'[Len(sends')].bot)]_vars

C18_Witness ==
    /\ pc = "sleep"
    /\ sendOutcome = "raised"
    /\ Len(sends) = 1
    /\ sends[1].bot
    /\ bot_sessions = 0

\* C19: both prices of a pair returned by get_collection_prices have a
\* magnitude that is positive and a currency other than UNKNOWN.
C19_ReturnedPricesInDataModel ==
    result # None =>
        /\ result.floor_price[1] > 0
        /\ result.best_offer[1] > 0
        /\ result.floor_price[2] # "UNKNOWN"
        /\ result.best_offer[2] # "UNKNOWN"

\* C20: at the inter-cycle sleep, when the file was loaded at startup or has
\* been saved since, and no save has failed, last_prices is the content of
\* the file.
C20_MemoryMatchesFile ==
    (pc = "sleep" /\ store = "synced") => file = FileJson(last_prices)

C20_Witness ==
    /\ pc = "sleep"
    /\ store = "synced"
    /\ saveOutcome = "ok"
    /\ file # pre.file
    /\ file = FileJson(last_prices)

\* the two snapshots differ textually in floor_price or in best_offer
DiffersFrom(prices, S) ==
    \/ prices.floor_price # S.floor_price
    \/ prices.best_offer # S.best_offer

\* every _save_memory so far has returned
EverySaveSucceeded == store # "failed"

\* C21: provided every save succeeds, once a snapshot S has been delivered
\* send_price_update is called again only with a fetched snapshot that differs
\* from S in floor_price or best_offer, so the next delivered snapshot differs
\* from S; until then last_prices is S.
C21_NoRepeatedSnapshot ==
    /\ []((EverySaveSucceeded /\ delivered # None /\ pc \in {"run", "sleep"}) =>
            last_prices = delivered)
    /\ [][(EverySaveSucceeded /\ delivered # None /\ pc = "notify"
             /\ sends' # sends) =>
            /\ sends'[Len(sends')].new_prices = current_prices
            /\ current_prices = check_prices(result)
            /\ DiffersFrom(current_prices, delivered)]_vars
    /\ [][(EverySaveSucceeded /\ delivered # None /\ pc = "sending"
             /\ sendOutcome' = "delivered") =>
            DiffersFrom(delivered', delivered)]_vars

C21_Witness ==
    /\ pc = "sending"
    /\ EverySaveSucceeded
    /\ delivered # None
    /\ last_prices = delivered
    /\ Len(sends) = 1
    /\ sends[1].new_prices = current_prices
    /\ current_prices.floor_price = delivered.floor_price
    /\ current_prices.best_offer # delivered.best_offer

====
